---- MODULE Spec2Model ----
(***************************************************************************)
(* State-machine model of the storage and lifecycle engine of escanor     *)
(* (src/src/bin/server/db.rs): the typed keyspace (KEYS_MAP), the KV,     *)
(* JSON and geo stores, the spatial index, the expiration index with its  *)
(* sweeper and tombstone reaper, and the snapshot save/load pipeline.     *)
(*                                                                         *)
(* Every command handler is an operator from a database record to a       *)
(* record [st, reply]; the actions apply the handlers to the variables.   *)
(***************************************************************************)
EXTENDS Integers, Sequences, FiniteSets, TLC

\* ------------------------------------------------------------------ bounds
\* wall clock (Utc::now().timestamp()) runs from 0 to MaxTime
MaxTime == 2
\* mutating commands are accepted while MUTATION_COUNT_SINCE_SAVE < MaxMut
MaxMut == 3
\* integers stored or produced by INCRBY stay within -MaxInt..MaxInt
MaxInt == 2
\* at most MaxFlush spawned clear_db tasks wait to run
MaxFlush == 1
\* database.mutations of the configuration: mutations needed for a scheduled snapshot
SaveMutations == 1
MaxBgSave == 1

\* ------------------------------------------------------------------ inputs
Keys == {"a"}
GeoKeys == {"a", "b"}

\* ESValue (db.rs 53-57): String(String) | Int(i64); text is a sequence of characters
ESString(s) == [type |-> "String", s |-> s]
ESInt(i) == [type |-> "Int", i |-> i]

\* serde_json::Value restricted to null, numbers and objects
JNull == [j |-> "null"]
JNum(n) == [j |-> "num", n |-> n]
JObj(m) == [j |-> "obj", m |-> m]
\* a Number holding an f64: n counts halves, so JFloat(3) is 1.5
JFloat(n) == [j |-> "float", n |-> n]

\* GeoPoint2D: tag plus coordinates (x_cord = latitude, y_cord = longitude)
GeoPoint2D(tag, lat, lng) == [tag |-> tag, x |-> lat, y |-> lng]

\* ------------------------------------------------------------ map helpers
\* DashMap<K, V> as a function whose domain is the set of present keys
EmptyMap == [x \in {} |-> TRUE]
MapInsert(m, k, v) == [x \in (DOMAIN m) \cup {k} |-> IF x = k THEN v ELSE m[x]]
MapRemove(m, k) == [x \in (DOMAIN m) \ {k} |-> m[x]]
MapLen(m) == Cardinality(DOMAIN m)

\* ----------------------------------------------------------------- replies
print_ok == [t |-> "ok"]
print_err(msg) == [t |-> "err", msg |-> msg]
print_wrong_type_err == [t |-> "err", msg |-> "WRONGTYPE"]
print_string(s) == [t |-> "bulk", s |-> s]
print_integer(i) == [t |-> "int", i |-> i]
print_nested_arr(a) == [t |-> "nested", a |-> a]
print_arr(a) == [t |-> "arr", a |-> a]
\* Option::unwrap on None: the handler panics and no reply is produced
panicked == [t |-> "panic"]

\* ------------------------------------------------------------------- state
VARIABLES
    KEYS_MAP,                  \* key -> KeyType
    KV_BTREE,                  \* key -> ESValue
    JSON_BTREE,                \* key -> Value
    GEO_BTREE,                 \* key -> HashSet<GeoPoint2D>
    GEO_RTREE,                 \* key -> RTree<GeoPoint2D> (its set of points)
    KEYS_REM_EX_HASH,          \* key -> absolute expiry epoch
    DELETED_KEYS_LIST,         \* tombstone set
    MUTATION_COUNT_SINCE_SAVE,
    LAST_SAVE_TIME,
    now,                       \* Utc::now().timestamp()
    timers,                    \* the interval timers of the background loops
    flush_tasks,               \* clear_db tasks spawned by FLUSHDB, not yet run
    save_tasks,                \* tasks spawned by BGSAVE, not yet run
    inflight,                  \* task -> the handler it is running and where it stands
    SAVE_IN_PROCEES,           \* AtomicBool behind set_save_in_progress
    db_file,                   \* the snapshot file
    ex_pending,                \* key -> expiry asked by the last SET .. EX, until a command names the key
    last                       \* the step just taken: command, key, argument, reply

vars == <<KEYS_MAP, KV_BTREE, JSON_BTREE, GEO_BTREE, GEO_RTREE, KEYS_REM_EX_HASH,
          DELETED_KEYS_LIST, MUTATION_COUNT_SINCE_SAVE, LAST_SAVE_TIME, now, timers,
          flush_tasks, save_tasks, inflight, SAVE_IN_PROCEES, db_file, ex_pending, last>>

\* the process-wide singletons as one record, the argument of every handler
DB == [KEYS_MAP |-> KEYS_MAP, KV_BTREE |-> KV_BTREE, JSON_BTREE |-> JSON_BTREE,
       GEO_BTREE |-> GEO_BTREE, GEO_RTREE |-> GEO_RTREE,
       KEYS_REM_EX_HASH |-> KEYS_REM_EX_HASH, DELETED_KEYS_LIST |-> DELETED_KEYS_LIST,
       MUTATION_COUNT_SINCE_SAVE |-> MUTATION_COUNT_SINCE_SAVE,
       LAST_SAVE_TIME |-> LAST_SAVE_TIME]

\* the singletons right after lazy_static initialisation
EmptyDB == [KEYS_MAP |-> EmptyMap, KV_BTREE |-> EmptyMap, JSON_BTREE |-> EmptyMap,
            GEO_BTREE |-> EmptyMap, GEO_RTREE |-> EmptyMap,
            KEYS_REM_EX_HASH |-> EmptyMap, DELETED_KEYS_LIST |-> {},
            MUTATION_COUNT_SINCE_SAVE |-> 0, LAST_SAVE_TIME |-> 0]

Ret(st, reply) == [st |-> st, reply |-> reply]

\* ------------------------------------------------------ keyspace directory
increment_mutation_counter(st) == [st EXCEPT !.MUTATION_COUNT_SINCE_SAVE = @ + 1]

increment_mutation_counter_by(st, size) == [st EXCEPT !.MUTATION_COUNT_SINCE_SAVE = @ + size]

is_key_valid_for_type(st, key, key_type) ==
    IF key \notin DOMAIN st.KEYS_MAP THEN TRUE ELSE st.KEYS_MAP[key] = key_type

insert_key(st, key, key_type) == [st EXCEPT !.KEYS_MAP = MapInsert(@, key, key_type)]

remove_key(st, key) == [st EXCEPT !.KEYS_MAP = MapRemove(@, key)]

\* ---------------------------------------------------------------- KV store
\* set with a fault: the directory is not updated
set_without_insert_key(st, key, value, exp, ts) ==
    LET s1 == IF exp > 0
              THEN [st EXCEPT !.KEYS_REM_EX_HASH = MapInsert(@, key, exp + ts)]
              ELSE st
        s2 == [s1 EXCEPT !.KV_BTREE = MapInsert(@, key, value)]
    IN  Ret(increment_mutation_counter(s2), print_ok)

set(st, key, value, exp, ts) ==
    LET s1 == IF exp > 0
              THEN [st EXCEPT !.KEYS_REM_EX_HASH = MapInsert(@, key, exp + ts)]
              ELSE st
        s2 == [s1 EXCEPT !.KV_BTREE = MapInsert(@, key, value)]
    IN  Ret(increment_mutation_counter(insert_key(s2, key, "KV")), print_ok)

get_set(st, key, value) ==
    IF ~is_key_valid_for_type(st, key, "KV") THEN Ret(st, print_wrong_type_err)
    ELSE LET s1 == insert_key([st EXCEPT !.KV_BTREE = MapInsert(@, key, value)], key, "KV")
         IN  IF key \notin DOMAIN st.KV_BTREE
             THEN Ret(increment_mutation_counter(s1), print_string(<<>>))
             ELSE IF st.KV_BTREE[key].type = "String"
                  THEN Ret(increment_mutation_counter(s1), print_string(st.KV_BTREE[key].s))
                  ELSE Ret(s1, print_err("ERR value is not a string"))

\* get with a fault: a hit is counted as a mutation
get_counting(st, key) ==
    IF ~is_key_valid_for_type(st, key, "KV") THEN Ret(st, print_wrong_type_err)
    ELSE IF key \in DOMAIN st.KV_BTREE
         THEN IF st.KV_BTREE[key].type = "String"
              THEN Ret(increment_mutation_counter(st), print_string(st.KV_BTREE[key].s))
              ELSE Ret(increment_mutation_counter(st), print_integer(st.KV_BTREE[key].i))
         ELSE Ret(st, print_err("KEY_NOT_FOUND"))

get(st, key) ==
    IF ~is_key_valid_for_type(st, key, "KV") THEN Ret(st, print_wrong_type_err)
    ELSE IF key \in DOMAIN st.KV_BTREE
         THEN IF st.KV_BTREE[key].type = "String"
              THEN Ret(st, print_string(st.KV_BTREE[key].s))
              ELSE Ret(st, print_integer(st.KV_BTREE[key].i))
         ELSE Ret(st, print_err("KEY_NOT_FOUND"))

\* EXISTS: the number of the named keys that the KV store holds
exists(st, ks) ==
    Ret(st, print_integer(Cardinality({n \in 1..Len(ks) : ks[n] \in DOMAIN st.KV_BTREE})))

db_size(st) ==
    Ret(st, print_integer(MapLen(st.KV_BTREE) + MapLen(st.JSON_BTREE) + MapLen(st.GEO_BTREE)))

last_save(st) == Ret(st, print_integer(st.LAST_SAVE_TIME))

del(st, key) ==
    IF ~is_key_valid_for_type(st, key, "KV") THEN Ret(st, print_wrong_type_err)
    ELSE IF key \in DOMAIN st.KV_BTREE
         THEN LET s1 == remove_key([st EXCEPT !.KV_BTREE = MapRemove(@, key)], key)
                  s2 == [s1 EXCEPT !.DELETED_KEYS_LIST = @ \cup {key}]
              IN  Ret(increment_mutation_counter(s2), print_ok)
         ELSE Ret(remove_key(st, key), print_err("KEY_NOT_FOUND"))

\* persist with a fault: the entry is looked up but not removed
persist_without_remove(st, key) ==
    IF key \in DOMAIN st.KEYS_REM_EX_HASH
    THEN Ret(st, print_integer(1))
    ELSE Ret(st, print_integer(0))

persist(st, key) ==
    IF key \in DOMAIN st.KEYS_REM_EX_HASH
    THEN Ret([st EXCEPT !.KEYS_REM_EX_HASH = MapRemove(@, key)], print_integer(1))
    ELSE Ret(st, print_integer(0))

\* ttl with a fault: a key missing from the KV store is not told apart
ttl_without_missing_key(st, key) ==
    IF ~is_key_valid_for_type(st, key, "KV") THEN Ret(st, print_integer(-1))
    ELSE IF key \in DOMAIN st.KEYS_REM_EX_HASH
         THEN Ret(st, print_integer(st.KEYS_REM_EX_HASH[key]))
         ELSE Ret(st, print_integer(-1))

ttl(st, key) ==
    IF ~is_key_valid_for_type(st, key, "KV") THEN Ret(st, print_integer(-1))
    ELSE LET out == IF key \notin DOMAIN st.KV_BTREE THEN -1 ELSE 0
         IN  IF key \in DOMAIN st.KEYS_REM_EX_HASH
             THEN Ret(st, print_integer(st.KEYS_REM_EX_HASH[key]))
             ELSE Ret(st, print_integer(out + (-1)))

expire(st, key, value, ts) ==
    IF ~is_key_valid_for_type(st, key, "KV") THEN Ret(st, print_integer(0))
    ELSE IF key \notin DOMAIN st.KV_BTREE THEN Ret(st, print_integer(0))
         ELSE Ret([st EXCEPT !.KEYS_REM_EX_HASH = MapInsert(@, key, ts + value)],
                  print_integer(0))

expire_at(st, key, at) ==
    IF ~is_key_valid_for_type(st, key, "KV") THEN Ret(st, print_integer(0))
    ELSE IF key \notin DOMAIN st.KV_BTREE THEN Ret(st, print_integer(0))
         ELSE Ret([st EXCEPT !.KEYS_REM_EX_HASH = MapInsert(@, key, at)],
                  print_integer(0))

\* str::parse::<i64> and i64::to_string on character sequences
Digits == <<"0", "1", "2", "3", "4", "5", "6", "7", "8", "9">>

IsDigit(c) == \E d \in 1..10 : Digits[d] = c

DigitVal(c) == (CHOOSE d \in 1..10 : Digits[d] = c) - 1

RECURSIVE DigitsVal(_)
DigitsVal(s) ==
    IF s = <<>> THEN 0 ELSE 10 * DigitsVal(SubSeq(s, 1, Len(s) - 1)) + DigitVal(s[Len(s)])

AllDigits(s) == s # <<>> /\ \A n \in 1..Len(s) : IsDigit(s[n])

\* an optional sign followed by at least one digit; anything else is an error
parse_i64(s) ==
    IF s # <<>> /\ s[1] \in {"+", "-"}
    THEN IF AllDigits(Tail(s))
         THEN [ok |-> TRUE, d |-> IF s[1] = "-" THEN 0 - DigitsVal(Tail(s)) ELSE DigitsVal(Tail(s))]
         ELSE [ok |-> FALSE, d |-> 0]
    ELSE IF AllDigits(s) THEN [ok |-> TRUE, d |-> DigitsVal(s)] ELSE [ok |-> FALSE, d |-> 0]

RECURSIVE NatToString(_)
NatToString(n) ==
    IF n < 10 THEN <<Digits[n + 1]>> ELSE NatToString(n \div 10) \o <<Digits[(n % 10) + 1]>>

to_string(n) == IF n < 0 THEN <<"-">> \o NatToString(0 - n) ELSE NatToString(n)

incr_by_storing_int(st, key, value) ==
    IF ~is_key_valid_for_type(st, key, "KV") THEN Ret(st, print_wrong_type_err)
    ELSE IF key \notin DOMAIN st.KV_BTREE
         THEN Ret([st EXCEPT !.KV_BTREE = MapInsert(@, key, ESInt(value))], print_integer(value))
         ELSE LET data == st.KV_BTREE[key]
              IN  IF data.type = "String"
                  THEN LET p == parse_i64(data.s)
                           new_value == to_string(p.d + value)
                       IN  IF p.ok
                           THEN Ret([st EXCEPT !.KV_BTREE = MapInsert(@, key, ESInt(p.d + value))],
                                    print_string(new_value))
                           ELSE Ret(st, print_err("ERR string cannot be represented as integer"))
                  ELSE Ret([st EXCEPT !.KV_BTREE = MapInsert(@, key, ESInt(data.i + value))],
                           print_integer(data.i + value))

incr_by(st, key, value) ==
    IF ~is_key_valid_for_type(st, key, "KV") THEN Ret(st, print_wrong_type_err)
    ELSE IF key \notin DOMAIN st.KV_BTREE
         THEN Ret([st EXCEPT !.KV_BTREE = MapInsert(@, key, ESInt(value))], print_integer(value))
         ELSE LET data == st.KV_BTREE[key]
              IN  IF data.type = "String"
                  THEN LET p == parse_i64(data.s)
                           new_value == to_string(p.d + value)
                       IN  IF p.ok
                           THEN Ret([st EXCEPT !.KV_BTREE = MapInsert(@, key, ESString(new_value))],
                                    print_string(new_value))
                           ELSE Ret(st, print_err("ERR string cannot be represented as integer"))
                  ELSE Ret([st EXCEPT !.KV_BTREE = MapInsert(@, key, ESInt(data.i + value))],
                           print_integer(data.i + value))

\* INFO: format!("db0:keys={}\r\n", KV_BTREE.len())
info(st) ==
    Ret(st, print_string(<<"d", "b", "0", ":", "k", "e", "y", "s", "=">>
                         \o to_string(MapLen(st.KV_BTREE)) \o <<"\r", "\n">>))

\* KEYS pattern with the pattern "*": every key of the directory
keys(st) == Ret(st, print_arr(DOMAIN st.KEYS_MAP))

\* --------------------------------------------------------------- geo store
\* HashSet<GeoPoint2D>: two points are the same element when their tags are equal
SameGeoPoint(p, q) == p.tag = q.tag

\* HashSet::insert leaves the set as it is when it already holds an equal element
HashSetInsert(hs, p) == IF \E q \in hs : SameGeoPoint(p, q) THEN hs ELSE hs \cup {p}

\* HashSet::remove with a fault: the element stays
HashSetRemove_keeping(hs, tag) == hs

\* HashSet::remove of the element equal to GeoPoint2D::new(tag)
HashSetRemove(hs, tag) == {q \in hs : q.tag # tag}

\* HashSet::get of the element equal to GeoPoint2D::new(tag)
HashSetGet(hs, tag) == {q \in hs : q.tag = tag}

\* RTree::bulk_load: the tree is modelled by the set of points it holds
RTreeBulkLoad(points) == points

RECURSIVE InsertItems(_, _)
InsertItems(point_map, items) ==
    IF items = <<>> THEN point_map
    ELSE InsertItems(HashSetInsert(point_map,
                                   GeoPoint2D(items[1][3], items[1][1], items[1][2])),
                     Tail(items))

geo_add(st, key, items) ==
    IF ~is_key_valid_for_type(st, key, "GEO") THEN Ret(st, print_wrong_type_err)
    ELSE LET prev == IF key \in DOMAIN st.GEO_BTREE THEN st.GEO_BTREE[key] ELSE {}
             point_map == InsertItems(prev, items)
             s1 == [st EXCEPT !.GEO_BTREE = MapInsert(@, key, point_map),
                              !.GEO_RTREE = MapInsert(@, key, RTreeBulkLoad(point_map))]
         IN  Ret(increment_mutation_counter(insert_key(s1, key, "GEO")), print_ok)

geo_pos(st, key, items) ==
    IF key \notin DOMAIN st.GEO_BTREE THEN Ret(st, print_err("KEY_NOT_FOUND"))
    ELSE Ret(st, print_nested_arr(
                [n \in 1..Len(items) |->
                    LET found == HashSetGet(st.GEO_BTREE[key], items[n])
                    IN  IF found = {} THEN <<>>
                        ELSE LET t == CHOOSE q \in found : TRUE IN <<t.x, t.y>>]))

geo_del(st, key) ==
    IF ~(key \in DOMAIN st.GEO_RTREE /\ key \in DOMAIN st.GEO_BTREE)
    THEN Ret(st, print_err("KEY_NOT_FOUND"))
    ELSE LET s1 == [st EXCEPT !.GEO_RTREE = MapRemove(@, key),
                              !.GEO_BTREE = MapRemove(@, key)]
         IN  Ret(increment_mutation_counter(remove_key(s1, key)), print_ok)

RECURSIVE RemoveItems(_, _)
RemoveItems(hs, items) ==
    IF items = <<>> THEN hs ELSE RemoveItems(HashSetRemove(hs, items[1]), Tail(items))

\* geo_remove with a fault: the spatial index is not rebuilt after a partial removal
geo_remove_without_rebuild(st, key, items) ==
    IF ~(key \in DOMAIN st.GEO_RTREE /\ key \in DOMAIN st.GEO_BTREE)
    THEN Ret(st, print_err("KEY_NOT_FOUND"))
    ELSE LET geo_point_hash_set == RemoveItems(st.GEO_BTREE[key], items)
         IN  IF geo_point_hash_set = {}
             THEN LET s1 == [st EXCEPT !.GEO_BTREE = MapRemove(@, key),
                                       !.GEO_RTREE = MapRemove(@, key)]
                  IN  Ret(increment_mutation_counter(remove_key(s1, key)), print_ok)
             ELSE LET s1 == [st EXCEPT !.GEO_BTREE = MapInsert(@, key, geo_point_hash_set)]
                  IN  Ret(increment_mutation_counter(s1), print_ok)

geo_remove(st, key, items) ==
    IF ~(key \in DOMAIN st.GEO_RTREE /\ key \in DOMAIN st.GEO_BTREE)
    THEN Ret(st, print_err("KEY_NOT_FOUND"))
    ELSE LET geo_point_hash_set == RemoveItems(st.GEO_BTREE[key], items)
         IN  IF geo_point_hash_set = {}
             THEN LET s1 == [st EXCEPT !.GEO_BTREE = MapRemove(@, key),
                                       !.GEO_RTREE = MapRemove(@, key)]
                  IN  Ret(increment_mutation_counter(remove_key(s1, key)), print_ok)
             ELSE LET s1 == [st EXCEPT !.GEO_BTREE = MapInsert(@, key, geo_point_hash_set),
                                       !.GEO_RTREE = MapInsert(@, key,
                                                        RTreeBulkLoad(geo_point_hash_set))]
                  IN  Ret(increment_mutation_counter(s1), print_ok)

\* -------------------------------------------------------------- JSON store
\* serde_json::from_str on the request texts the model sends
from_str(text) ==
    CASE text = "{\"x\":1}" -> [ok |-> TRUE, v |-> JObj([f \in {"x"} |-> JNum(1)])]
      [] text = "{\"y\":2}" -> [ok |-> TRUE, v |-> JObj([f \in {"y"} |-> JNum(2)])]
      [] text = "{\"x\":1.5}" -> [ok |-> TRUE, v |-> JObj([f \in {"x"} |-> JFloat(3)])]
      [] text = "1" -> [ok |-> TRUE, v |-> JNum(1)]
      [] text = "null" -> [ok |-> TRUE, v |-> JNull]
      [] OTHER -> [ok |-> FALSE, v |-> JNull]

\* json_dotpath dot_set; a path is its sequence of segments, all of them object keys
RECURSIVE dot_set(_, _, _)
dot_set(json, path, value) ==
    IF path = <<>> THEN [ok |-> TRUE, v |-> value]
    ELSE IF json.j = "null" \/ json.j = "obj"
         THEN LET m == IF json.j = "obj" THEN json.m ELSE EmptyMap
                  my == path[1]
                  sub == Tail(path)
              IN  IF sub = <<>>
                  THEN [ok |-> TRUE, v |-> JObj(MapInsert(m, my, value))]
                  ELSE LET child == IF my \in DOMAIN m THEN m[my] ELSE JNull
                           r == dot_set(child, sub, value)
                       IN  IF r.ok THEN [ok |-> TRUE, v |-> JObj(MapInsert(m, my, r.v))]
                           ELSE [ok |-> FALSE, v |-> json]
         ELSE [ok |-> FALSE, v |-> json]

\* the loop of jset over arg_set_items: the document after the sets, and the errors
RECURSIVE SetItems(_, _, _)
SetItems(json, items, ers) ==
    IF items = <<>> THEN [json |-> json, ers |-> ers]
    ELSE LET r == dot_set(json, items[1][1], items[1][2])
         IN  IF r.ok THEN SetItems(r.v, Tail(items), ers)
             ELSE SetItems(json, Tail(items), ers + 1)

\* util::merge(new, previous): deep merge, the new document wins at conflicts
RECURSIVE merge(_, _)
merge(value, prev_value) ==
    IF value.j = "obj" /\ prev_value.j = "obj"
    THEN JObj([f \in (DOMAIN value.m) \cup (DOMAIN prev_value.m) |->
                 IF f \notin DOMAIN value.m THEN prev_value.m[f]
                 ELSE IF f \notin DOMAIN prev_value.m THEN value.m[f]
                 ELSE merge(value.m[f], prev_value.m[f])])
    ELSE value

jset_raw(st, key, text) ==
    LET json_value == from_str(text)
    IN  IF ~json_value.ok THEN Ret(st, print_err("ERR invalid json"))
        ELSE Ret(increment_mutation_counter(
                    [st EXCEPT !.JSON_BTREE = MapInsert(@, key, json_value.v)]), print_ok)

jset(st, key, items) ==
    IF ~is_key_valid_for_type(st, key, "JSON") THEN Ret(st, print_wrong_type_err)
    ELSE IF key \notin DOMAIN st.JSON_BTREE
         THEN LET r == SetItems(JNull, items, 0)
              IN  IF r.ers # 0 THEN Ret(st, print_err("Error Saving values"))
                  ELSE LET s1 == [st EXCEPT !.JSON_BTREE = MapInsert(@, key, r.json)]
                       IN  Ret(increment_mutation_counter(insert_key(s1, key, "JSON")), print_ok)
         ELSE LET r == SetItems(st.JSON_BTREE[key], items, 0)
                  s1 == [st EXCEPT !.JSON_BTREE = MapInsert(@, key, r.json)]
              IN  IF r.ers # 0 THEN Ret(s1, print_err("Error some values"))
                  ELSE Ret(increment_mutation_counter(s1), print_ok)

jmerge(st, key, text) ==
    IF ~is_key_valid_for_type(st, key, "GEO") THEN Ret(st, print_wrong_type_err)
    ELSE LET value == from_str(text)
             prev_value == IF key \in DOMAIN st.JSON_BTREE THEN st.JSON_BTREE[key] ELSE JNull
         IN  IF ~value.ok THEN Ret(st, print_err("ERR invalid json"))
             ELSE IF prev_value.j = "null"
                  THEN Ret(increment_mutation_counter(
                              [st EXCEPT !.JSON_BTREE = MapInsert(@, key, value.v)]), print_ok)
                  ELSE LET s1 == [st EXCEPT !.JSON_BTREE =
                                                MapInsert(@, key, merge(value.v, prev_value))]
                       IN  Ret(increment_mutation_counter(insert_key(s1, key, "JSON")), print_ok)

\* json_dotpath dot_get::<Value>: Ok(None) for a path that is missing or holds null,
\* an error for a path that leads through a scalar
RECURSIVE dot_get(_, _)
dot_get(json, path) ==
    IF json.j = "null" THEN [ok |-> TRUE, some |-> FALSE, v |-> JNull]
    ELSE IF path = <<>> THEN [ok |-> TRUE, some |-> TRUE, v |-> json]
    ELSE IF json.j = "obj"
         THEN IF path[1] \notin DOMAIN json.m
              THEN [ok |-> TRUE, some |-> FALSE, v |-> JNull]
              ELSE dot_get(json.m[path[1]], Tail(path))
         ELSE [ok |-> FALSE, some |-> FALSE, v |-> JNull]

\* the object keys of the documents, in the order of serde_json's map
JsonFields == <<"x", "y">>

\* Value::to_string: the compact JSON text, as a sequence of characters
RECURSIVE value_to_string(_)
RECURSIVE FieldsToString(_, _, _)
FieldsToString(m, fields, first) ==
    IF fields = <<>> THEN <<>>
    ELSE IF fields[1] \notin DOMAIN m THEN FieldsToString(m, Tail(fields), first)
    ELSE (IF first THEN <<>> ELSE <<",">>)
         \o <<"\"", fields[1], "\"", ":">> \o value_to_string(m[fields[1]])
         \o FieldsToString(m, Tail(fields), FALSE)

value_to_string(v) ==
    CASE v.j = "null" -> <<"n", "u", "l", "l">>
      [] v.j = "num" -> to_string(v.n)
      [] v.j = "float" ->
            LET a == IF v.n < 0 THEN 0 - v.n ELSE v.n
            IN  (IF v.n < 0 THEN <<"-">> ELSE <<>>) \o NatToString(a \div 2)
                \o <<".", IF a % 2 = 1 THEN "5" ELSE "0">>
      [] v.j = "obj" -> <<"{">> \o FieldsToString(v.m, JsonFields, TRUE) \o <<"}">>

\* jget; path is the empty sequence when the command gives none
jget(st, key, path) ==
    LET value == IF key \in DOMAIN st.JSON_BTREE THEN st.JSON_BTREE[key] ELSE JNull
    IN  IF value.j = "null" THEN Ret(st, print_string(<<>>))
        ELSE IF path # <<>>
             THEN LET r == dot_get(value, path)
                  IN  IF ~r.ok THEN Ret(st, print_string(value_to_string(JNull)))
                      ELSE IF ~r.some THEN Ret(st, panicked)
                      ELSE Ret(st, print_string(value_to_string(r.v)))
             ELSE Ret(st, print_string(value_to_string(value)))

\* Value::as_i64: None for a Number that holds an f64
as_i64(v) == IF v.j = "num" THEN [some |-> TRUE, i |-> v.n] ELSE [some |-> FALSE, i |-> 0]

\* print_integer(new_value.as_i64().unwrap())
print_integer_unwrap(v) == IF as_i64(v).some THEN print_integer(as_i64(v).i) ELSE panicked

jincr_by(st, key, path, increment_value) ==
    IF key \notin DOMAIN st.JSON_BTREE THEN Ret(st, print_err("ERR key not found"))
    ELSE LET json == st.JSON_BTREE[key]
             g == dot_get(json, path)
             path_to_incr == IF g.ok /\ g.some THEN g.v ELSE JNull
         IN  IF path_to_incr.j = "null"
             THEN LET new_value == JNum(increment_value)
                      r == dot_set(json, path, new_value)
                      s1 == [st EXCEPT !.JSON_BTREE = MapInsert(@, key, r.v)]
                  IN  Ret(increment_mutation_counter(s1), print_integer_unwrap(new_value))
             ELSE IF path_to_incr.j \notin {"num", "float"}
                  THEN Ret(st, print_err("ERR value is not a number"))
                  ELSE LET new_value ==
                               IF path_to_incr.j = "num"
                               THEN JNum(path_to_incr.n + increment_value)
                               ELSE JFloat(path_to_incr.n + 2 * increment_value)
                           r == dot_set(json, path, new_value)
                           s1 == [st EXCEPT !.JSON_BTREE = MapInsert(@, key, r.v)]
                       IN  IF r.ok
                           THEN Ret(increment_mutation_counter(s1),
                                    print_integer_unwrap(new_value))
                           ELSE Ret(st, print_err("ERR value not set"))

jdel(st, key) == Ret(remove_key([st EXCEPT !.JSON_BTREE = MapRemove(@, key)], key), print_ok)

\* ----------------------------------------------------- expiration, flushing
\* clear_db with a fault: the counter is bumped by the size of the KV store only
clear_db_counting_kv(st) ==
    LET size == MapLen(st.KV_BTREE)
    IN  [EmptyDB EXCEPT !.MUTATION_COUNT_SINCE_SAVE = st.MUTATION_COUNT_SINCE_SAVE + size,
                        !.LAST_SAVE_TIME = st.LAST_SAVE_TIME]

clear_db(st) ==
    LET size == MapLen(st.KV_BTREE) + MapLen(st.KEYS_REM_EX_HASH) + MapLen(st.GEO_RTREE)
                + MapLen(st.GEO_BTREE) + MapLen(st.JSON_BTREE)
    IN  [EmptyDB EXCEPT !.MUTATION_COUNT_SINCE_SAVE = st.MUTATION_COUNT_SINCE_SAVE + size,
                        !.LAST_SAVE_TIME = st.LAST_SAVE_TIME]

remove_expired_keys(st) ==
    [st EXCEPT !.KEYS_REM_EX_HASH =
        [k \in (DOMAIN st.KEYS_REM_EX_HASH) \ st.DELETED_KEYS_LIST |-> st.KEYS_REM_EX_HASH[k]]]

\* del issued for every key of a set; the deletes of different keys commute
RECURSIVE DelAll(_, _)
DelAll(st, ks) ==
    IF ks = {} THEN st
    ELSE LET k == CHOOSE x \in ks : TRUE IN DelAll(del(st, k).st, ks \ {k})

\* one turn of the 1-second loop of init_db
sweeper_tick(st, current_ts) ==
    LET s1 == remove_expired_keys(st)
        due == {k \in DOMAIN s1.KEYS_REM_EX_HASH : s1.KEYS_REM_EX_HASH[k] <= current_ts}
    IN  DelAll(s1, due)

\* one turn of the 2-second loop of init_db
reaper_tick(st) == [st EXCEPT !.DELETED_KEYS_LIST = {}]

\* ---------------------------------------------------------------- snapshot
NoFile == [exists |-> FALSE, content |-> <<>>]

\* rmp_serde encodes struct Database as the array of its fields, in declaration order
encode(db) == <<db.btree, db.json_btree, db.geo_tree>>

\* rmp_serde::decode::from_read_ref; an empty or short buffer is a decode error
decode(content) ==
    IF Len(content) = 3
    THEN [ok |-> TRUE,
          db |-> [btree |-> content[1], json_btree |-> content[2], geo_tree |-> content[3]]]
    ELSE [ok |-> FALSE, db |-> [btree |-> EmptyMap, json_btree |-> EmptyMap, geo_tree |-> EmptyMap]]

\* save_db: io_ok is the outcome of db_file_path, open and write_all together
save_db(st, file, io_ok, ts) ==
    LET db == [btree |-> st.KV_BTREE, geo_tree |-> st.GEO_BTREE, json_btree |-> st.JSON_BTREE]
        content == encode(db)
    IN  IF io_ok
        THEN [st |-> [st EXCEPT !.MUTATION_COUNT_SINCE_SAVE = 0, !.LAST_SAVE_TIME = ts],
              file |-> [exists |-> TRUE, content |-> content]]
        ELSE [st |-> st, file |-> file]

\* bg_save replies OK after spawning a task
bg_save(st) == Ret(st, print_ok)

\* the task spawned by bg_save calls save_db and does not await it: the future is
\* dropped without being polled, so nothing of save_db runs
bg_save_task(st, file) == [st |-> st, file |-> file]

insert_key_with_deletion(st, key, key_type) ==
    LET s1 == IF is_key_valid_for_type(st, key, key_type) THEN st
              ELSE CASE key_type = "KV" -> geo_del(jdel(st, key).st, key).st
                     [] key_type = "JSON" -> geo_del(del(st, key).st, key).st
                     [] key_type = "GEO" -> jdel(del(st, key).st, key).st
    IN  insert_key(s1, key, key_type)

RECURSIVE LoadGeo(_, _, _)
LoadGeo(st, tree, ks) ==
    IF ks = {} THEN st
    ELSE LET k == CHOOSE x \in ks : TRUE
             s1 == [st EXCEPT !.GEO_BTREE = MapInsert(@, k, tree[k])]
         IN  LoadGeo(insert_key_with_deletion(s1, k, "GEO"), tree, ks \ {k})

RECURSIVE LoadJson(_, _, _)
LoadJson(st, tree, ks) ==
    IF ks = {} THEN st
    ELSE LET k == CHOOSE x \in ks : TRUE
             s1 == [st EXCEPT !.JSON_BTREE = MapInsert(@, k, tree[k])]
         IN  LoadJson(insert_key_with_deletion(s1, k, "JSON"), tree, ks \ {k})

RECURSIVE LoadKv(_, _, _)
LoadKv(st, tree, ks) ==
    IF ks = {} THEN st
    ELSE LET k == CHOOSE x \in ks : TRUE
             s1 == [st EXCEPT !.KV_BTREE = MapInsert(@, k, tree[k])]
         IN  LoadKv(insert_key_with_deletion(s1, k, "KV"), tree, ks \ {k})

load_db(st, file) ==
    IF ~file.exists THEN st
    ELSE LET saved_db == decode(file.content)
         IN  IF ~saved_db.ok THEN st
             ELSE LET s1 == LoadGeo(st, saved_db.db.geo_tree, DOMAIN saved_db.db.geo_tree)
                      s2 == LoadJson(s1, saved_db.db.json_btree, DOMAIN saved_db.db.json_btree)
                      s3 == LoadKv(s2, saved_db.db.btree, DOMAIN saved_db.db.btree)
                  IN  [s3 EXCEPT !.GEO_RTREE =
                          [k \in (DOMAIN s3.GEO_RTREE) \cup (DOMAIN s3.GEO_BTREE) |->
                              IF k \in DOMAIN s3.GEO_BTREE THEN RTreeBulkLoad(s3.GEO_BTREE[k])
                              ELSE s3.GEO_RTREE[k]]]

\* ------------------------------------------------------- concurrent tasks
\* the connections whose handlers run on the worker threads, and the snapshot loop
Clients == {"c1", "c2"}
Tasks == Clients \cup {"save_db"}

\* a task that runs no handler
Idle == [pc |-> "idle", op |-> "", key |-> "", arg |-> <<>>, loc |-> <<>>, reply |-> print_ok]
NoTasks == [t \in Tasks |-> Idle]

\* the task moves on to the step pc with the local values loc
Goto(st, t, pc, loc) == [st |-> st, t |-> [t EXCEPT !.pc = pc, !.loc = loc]]

\* the handler returns reply
Done(st, t, reply) == [st |-> st, t |-> [t EXCEPT !.pc = "done", !.loc = <<>>, !.reply = reply]]

\* geo_add, one access to a shared map or counter per step
geo_add_step(st, t) ==
    CASE t.pc = "start" ->
            IF ~is_key_valid_for_type(st, t.key, "GEO") THEN Done(st, t, print_wrong_type_err)
            ELSE Goto(st, t, "contains_key", {})
      [] t.pc = "contains_key" ->
            IF t.key \in DOMAIN st.GEO_BTREE THEN Goto(st, t, "get_mut", {})
            ELSE Goto(st, t, "insert_map", InsertItems({}, t.arg))
      [] t.pc = "get_mut" ->
            IF t.key \in DOMAIN st.GEO_BTREE
            THEN Goto(st, t, "insert_map", InsertItems(st.GEO_BTREE[t.key], t.arg))
            ELSE Done(st, t, panicked)
      [] t.pc = "insert_map" ->
            Goto([st EXCEPT !.GEO_BTREE = MapInsert(@, t.key, t.loc)], t, "insert_rmap", t.loc)
      [] t.pc = "insert_rmap" ->
            Goto([st EXCEPT !.GEO_RTREE = MapInsert(@, t.key, RTreeBulkLoad(t.loc))],
                 t, "insert_key", {})
      [] t.pc = "insert_key" -> Goto(insert_key(st, t.key, "GEO"), t, "count", {})
      [] t.pc = "count" -> Done(increment_mutation_counter(st), t, print_ok)

\* geo_del, one access to a shared map or counter per step
geo_del_step(st, t) ==
    CASE t.pc = "start" ->
            IF t.key \in DOMAIN st.GEO_RTREE THEN Goto(st, t, "contains_key", {})
            ELSE Done(st, t, print_err("KEY_NOT_FOUND"))
      [] t.pc = "contains_key" ->
            IF t.key \in DOMAIN st.GEO_BTREE THEN Goto(st, t, "remove_rmap", {})
            ELSE Done(st, t, print_err("KEY_NOT_FOUND"))
      [] t.pc = "remove_rmap" ->
            Goto([st EXCEPT !.GEO_RTREE = MapRemove(@, t.key)], t, "remove_map", {})
      [] t.pc = "remove_map" ->
            Goto([st EXCEPT !.GEO_BTREE = MapRemove(@, t.key)], t, "remove_key", {})
      [] t.pc = "remove_key" -> Goto(remove_key(st, t.key), t, "count", {})
      [] t.pc = "count" -> Done(increment_mutation_counter(st), t, print_ok)

\* geo_remove, one access to a shared map or counter per step
geo_remove_step(st, t) ==
    CASE t.pc = "start" ->
            IF t.key \in DOMAIN st.GEO_RTREE THEN Goto(st, t, "contains_key", {})
            ELSE Done(st, t, print_err("KEY_NOT_FOUND"))
      [] t.pc = "contains_key" ->
            IF t.key \in DOMAIN st.GEO_BTREE THEN Goto(st, t, "get", {})
            ELSE Done(st, t, print_err("KEY_NOT_FOUND"))
      [] t.pc = "get" ->
            IF t.key \notin DOMAIN st.GEO_BTREE THEN Done(st, t, print_err("KEY_NOT_FOUND"))
            ELSE LET geo_point_hash_set == RemoveItems(st.GEO_BTREE[t.key], t.arg)
                 IN  IF geo_point_hash_set = {} THEN Goto(st, t, "remove_map", {})
                     ELSE Goto(st, t, "insert_map", geo_point_hash_set)
      [] t.pc = "remove_map" ->
            Goto([st EXCEPT !.GEO_BTREE = MapRemove(@, t.key)], t, "remove_rmap", {})
      [] t.pc = "remove_rmap" ->
            Goto([st EXCEPT !.GEO_RTREE = MapRemove(@, t.key)], t, "remove_key", {})
      [] t.pc = "remove_key" -> Goto(remove_key(st, t.key), t, "count", {})
      [] t.pc = "insert_map" ->
            Goto([st EXCEPT !.GEO_BTREE = MapInsert(@, t.key, t.loc)], t, "insert_rmap", t.loc)
      [] t.pc = "insert_rmap" ->
            Goto([st EXCEPT !.GEO_RTREE = MapInsert(@, t.key, RTreeBulkLoad(t.loc))],
                 t, "count", {})
      [] t.pc = "count" -> Done(increment_mutation_counter(st), t, print_ok)

\* incr_by: the entry is updated under its guard when get_mut finds it, and inserted
\* in a further step when it does not
incr_by_step(st, t) ==
    CASE t.pc = "start" ->
            IF ~is_key_valid_for_type(st, t.key, "KV") THEN Done(st, t, print_wrong_type_err)
            ELSE Goto(st, t, "get_mut", {})
      [] t.pc = "get_mut" ->
            IF t.key \in DOMAIN st.KV_BTREE
            THEN LET r == incr_by([st EXCEPT !.KEYS_MAP = EmptyMap], t.key, t.arg[1])
                 IN  Done([st EXCEPT !.KV_BTREE = r.st.KV_BTREE], t, r.reply)
            ELSE Goto(st, t, "insert", {})
      [] t.pc = "insert" ->
            Done([st EXCEPT !.KV_BTREE = MapInsert(@, t.key, ESInt(t.arg[1]))],
                 t, print_integer(t.arg[1]))

\* save_db step by step; ok is the outcome of the library or system call of the step.
\* A failed encode leaves an empty buffer and the function goes on; the file is opened
\* without truncation, so writing the empty buffer leaves its content as it was.
save_db_step(st, file, t, ok, ts) ==
    CASE t.pc = "start" ->
            [Goto(st, t, "clone_kv", [json_btree |-> st.JSON_BTREE, btree |-> EmptyMap,
                                      geo_tree |-> EmptyMap, content |-> <<>>,
                                      encoded |-> FALSE])
             EXCEPT !.st = st] @@ [file |-> file, result |-> "running"]
      [] t.pc = "clone_kv" ->
            Goto(st, t, "clone_geo", [t.loc EXCEPT !.btree = st.KV_BTREE])
               @@ [file |-> file, result |-> "running"]
      [] t.pc = "clone_geo" ->
            Goto(st, t, "encode", [t.loc EXCEPT !.geo_tree = st.GEO_BTREE])
               @@ [file |-> file, result |-> "running"]
      [] t.pc = "encode" ->
            Goto(st, t, "path",
                 [t.loc EXCEPT !.content = IF ok THEN encode(t.loc) ELSE <<>>, !.encoded = ok])
               @@ [file |-> file, result |-> "running"]
      [] t.pc = "path" ->
            IF ok THEN Goto(st, t, "open", t.loc) @@ [file |-> file, result |-> "running"]
            ELSE [st |-> st, t |-> Idle, file |-> file, result |-> "no_path"]
      [] t.pc = "open" ->
            IF ok THEN Goto(st, t, "write", t.loc)
                          @@ [file |-> [file EXCEPT !.exists = TRUE], result |-> "running"]
            ELSE [st |-> st, t |-> Idle, file |-> file, result |-> "open_failed"]
      [] t.pc = "write" ->
            IF ok
            THEN [st |-> [st EXCEPT !.MUTATION_COUNT_SINCE_SAVE = 0, !.LAST_SAVE_TIME = ts],
                  t |-> Idle,
                  file |-> [file EXCEPT !.content = IF t.loc.content = <<>> THEN @
                                                    ELSE t.loc.content],
                  result |-> "written"]
            ELSE [st |-> st, t |-> Idle, file |-> file, result |-> "write_failed"]

\* the next step of the handler a task is running
handler_step(st, t) ==
    CASE t.op = "GEOADD" -> geo_add_step(st, t)
      [] t.op = "GEODEL" -> geo_del_step(st, t)
      [] t.op = "GEOREM" -> geo_remove_step(st, t)
      [] t.op = "INCRBY" -> incr_by_step(st, t)

\* ----------------------------------------------------------------- actions
InitTimers == [sweep_due |-> TRUE, reap_in |-> 0]

Init ==
    /\ KEYS_MAP = EmptyMap /\ KV_BTREE = EmptyMap /\ JSON_BTREE = EmptyMap
    /\ GEO_BTREE = EmptyMap /\ GEO_RTREE = EmptyMap
    /\ KEYS_REM_EX_HASH = EmptyMap /\ DELETED_KEYS_LIST = {}
    /\ MUTATION_COUNT_SINCE_SAVE = 0 /\ LAST_SAVE_TIME = 0
    /\ now = 0 /\ timers = InitTimers /\ flush_tasks = 0 /\ save_tasks = 0
    /\ inflight = NoTasks /\ SAVE_IN_PROCEES = FALSE
    /\ db_file = NoFile /\ ex_pending = EmptyMap
    /\ last = [op |-> "init", key |-> "", arg |-> <<>>, reply |-> print_ok]

\* the singletons take the values of st; the mutation counter stays within its bound
Store(st) ==
    /\ st.MUTATION_COUNT_SINCE_SAVE <= MaxMut
    /\ KEYS_MAP' = st.KEYS_MAP /\ KV_BTREE' = st.KV_BTREE /\ JSON_BTREE' = st.JSON_BTREE
    /\ GEO_BTREE' = st.GEO_BTREE /\ GEO_RTREE' = st.GEO_RTREE
    /\ KEYS_REM_EX_HASH' = st.KEYS_REM_EX_HASH /\ DELETED_KEYS_LIST' = st.DELETED_KEYS_LIST
    /\ MUTATION_COUNT_SINCE_SAVE' = st.MUTATION_COUNT_SINCE_SAVE
    /\ LAST_SAVE_TIME' = st.LAST_SAVE_TIME

\* a command naming key completes with result r
Command(op, key, arg, r) ==
    /\ Store(r.st)
    /\ last' = [op |-> op, key |-> key, arg |-> arg, reply |-> r.reply]
    /\ ex_pending' = IF op = "SET" /\ arg[2] > 0
                     THEN MapInsert(ex_pending, key, now + arg[2])
                     ELSE MapRemove(ex_pending, key)
    /\ UNCHANGED <<now, timers, flush_tasks, save_tasks, db_file, inflight, SAVE_IN_PROCEES>>

Set(k, v, ex) == Command("SET", k, <<v, ex>>, set(DB, k, v, ex, now))
GetSet(k, v) == Command("GETSET", k, <<v>>, get_set(DB, k, v))
Get(k) == Command("GET", k, <<>>, get(DB, k))
Del(k) == Command("DEL", k, <<>>, del(DB, k))
Persist(k) == Command("PERSIST", k, <<>>, persist(DB, k))
Ttl(k) == Command("TTL", k, <<>>, ttl(DB, k))
Expire(k, secs) == Command("EXPIRE", k, <<secs>>, expire(DB, k, secs, now))
ExpireAt(k, at) == Command("EXPIREAT", k, <<at>>, expire_at(DB, k, at))

IncrBy(k, n) ==
    /\ LET r == incr_by(DB, k, n)
       IN  k \in DOMAIN r.st.KV_BTREE
              => IF r.st.KV_BTREE[k].type = "Int"
                 THEN r.st.KV_BTREE[k].i \in (0 - MaxInt)..MaxInt
                 ELSE parse_i64(r.st.KV_BTREE[k].s).d \in (0 - MaxInt)..MaxInt
    /\ Command("INCRBY", k, <<n>>, incr_by(DB, k, n))

GeoAdd(k, items) == Command("GEOADD", k, items, geo_add(DB, k, items))
GeoPos(k, tags) == Command("GEOPOS", k, tags, geo_pos(DB, k, tags))
GeoDel(k) == Command("GEODEL", k, <<>>, geo_del(DB, k))
GeoRemove(k, tags) == Command("GEOREM", k, tags, geo_remove(DB, k, tags))
JSetRaw(k, text) == Command("JSET.RAW", k, <<text>>, jset_raw(DB, k, text))
JSet(k, items) == Command("JSET", k, items, jset(DB, k, items))
JMerge(k, text) == Command("JMERGE", k, <<text>>, jmerge(DB, k, text))
JDel(k) == Command("JDEL", k, <<>>, jdel(DB, k))
JGet(k, path) == Command("JGET", k, <<path>>, jget(DB, k, path))
JIncrBy(k, path, n) == Command("JINCRBY", k, <<path, n>>, jincr_by(DB, k, path, n))

\* flush_db replies OK after spawning the task that will run clear_db
FlushDb ==
    /\ flush_tasks < MaxFlush
    /\ flush_tasks' = flush_tasks + 1
    /\ last' = [op |-> "FLUSHDB", key |-> "", arg |-> <<>>, reply |-> print_ok]
    /\ UNCHANGED <<KEYS_MAP, KV_BTREE, JSON_BTREE, GEO_BTREE, GEO_RTREE, KEYS_REM_EX_HASH,
                   DELETED_KEYS_LIST, MUTATION_COUNT_SINCE_SAVE, LAST_SAVE_TIME, now, timers,
                   save_tasks, db_file, ex_pending, inflight, SAVE_IN_PROCEES>>

\* the spawned task runs clear_db
ClearDb ==
    /\ flush_tasks > 0
    /\ flush_tasks' = flush_tasks - 1
    /\ Store(clear_db(DB))
    /\ last' = [op |-> "clear_db", key |-> "", arg |-> <<>>, reply |-> print_ok]
    /\ UNCHANGED <<now, timers, save_tasks, db_file, ex_pending, inflight, SAVE_IN_PROCEES>>

\* a second of wall-clock time passes; each loop has run when its interval elapsed
Tick ==
    /\ now < MaxTime
    /\ ~timers.sweep_due /\ timers.reap_in > 0
    /\ now' = now + 1
    /\ timers' = [sweep_due |-> TRUE, reap_in |-> timers.reap_in - 1]
    /\ last' = [op |-> "tick", key |-> "", arg |-> <<>>, reply |-> print_ok]
    /\ UNCHANGED <<KEYS_MAP, KV_BTREE, JSON_BTREE, GEO_BTREE, GEO_RTREE, KEYS_REM_EX_HASH,
                   DELETED_KEYS_LIST, MUTATION_COUNT_SINCE_SAVE, LAST_SAVE_TIME,
                   flush_tasks, save_tasks, db_file, ex_pending, inflight, SAVE_IN_PROCEES>>

\* the 1-second loop: remove_expired_keys, then del of every key whose expiry has passed
Sweeper ==
    /\ timers.sweep_due
    /\ Store(sweeper_tick(DB, now))
    /\ timers' = [timers EXCEPT !.sweep_due = FALSE]
    /\ last' = [op |-> "sweeper", key |-> "", arg |-> <<>>, reply |-> print_ok]
    /\ UNCHANGED <<now, flush_tasks, save_tasks, db_file, ex_pending, inflight, SAVE_IN_PROCEES>>

\* the 2-second loop: the tombstone set is cleared
Reaper ==
    /\ timers.reap_in = 0
    /\ Store(reaper_tick(DB))
    /\ timers' = [timers EXCEPT !.reap_in = 2]
    /\ last' = [op |-> "reaper", key |-> "", arg |-> <<>>, reply |-> print_ok]
    /\ UNCHANGED <<now, flush_tasks, save_tasks, db_file, ex_pending, inflight, SAVE_IN_PROCEES>>

\* the snapshot loop of init_db, enabled when enough mutations have accumulated
SaveDb(io_ok) ==
    /\ MUTATION_COUNT_SINCE_SAVE >= SaveMutations
    /\ LET r == save_db(DB, db_file, io_ok, now)
       IN  Store(r.st) /\ db_file' = r.file
    /\ last' = [op |-> "save_db", key |-> "", arg |-> <<io_ok>>, reply |-> print_ok]
    /\ UNCHANGED <<now, timers, flush_tasks, save_tasks, ex_pending, inflight, SAVE_IN_PROCEES>>

\* bg_save: the reply is sent and a task is left to run
BgSave ==
    /\ save_tasks < MaxBgSave
    /\ save_tasks' = save_tasks + 1
    /\ Store(bg_save(DB).st)
    /\ last' = [op |-> "BGSAVE", key |-> "", arg |-> <<>>, reply |-> bg_save(DB).reply]
    /\ UNCHANGED <<now, timers, flush_tasks, db_file, ex_pending, inflight, SAVE_IN_PROCEES>>

\* the task spawned by bg_save runs to its end
BgSaveTask ==
    /\ save_tasks > 0
    /\ save_tasks' = save_tasks - 1
    /\ LET r == bg_save_task(DB, db_file)
       IN  Store(r.st) /\ db_file' = r.file
    /\ last' = [op |-> "bg_save_task", key |-> "", arg |-> <<>>, reply |-> print_ok]
    /\ UNCHANGED <<now, timers, flush_tasks, ex_pending, inflight, SAVE_IN_PROCEES>>

\* a task is running a handler
Running(c) == inflight[c].pc \notin {"idle", "done"}

\* a connection hands a command to its handler; the earlier reply has been read
Begin(c, op, key, arg) ==
    /\ ~Running(c)
    /\ MUTATION_COUNT_SINCE_SAVE + Cardinality({d \in Clients : Running(d)}) < MaxMut
    /\ inflight' = [inflight EXCEPT ![c] = [pc |-> "start", op |-> op, key |-> key,
                                            arg |-> arg, loc |-> <<>>, reply |-> print_ok]]
    /\ last' = [op |-> "begin", key |-> key, arg |-> <<c, op>>, reply |-> print_ok]
    /\ UNCHANGED <<KEYS_MAP, KV_BTREE, JSON_BTREE, GEO_BTREE, GEO_RTREE, KEYS_REM_EX_HASH,
                   DELETED_KEYS_LIST, MUTATION_COUNT_SINCE_SAVE, LAST_SAVE_TIME, now, timers,
                   flush_tasks, save_tasks, SAVE_IN_PROCEES, db_file, ex_pending>>

\* the handler of a connection takes its next step; the last one delivers the reply
Step(c) ==
    /\ Running(c)
    /\ LET r == handler_step(DB, inflight[c])
       IN  /\ Store(r.st)
           /\ inflight' = [inflight EXCEPT ![c] = r.t]
           /\ last' = IF r.t.pc = "done"
                      THEN [op |-> r.t.op, key |-> r.t.key, arg |-> r.t.arg, reply |-> r.t.reply]
                      ELSE [op |-> "step", key |-> r.t.key, arg |-> <<c>>, reply |-> print_ok]
    /\ UNCHANGED <<now, timers, flush_tasks, save_tasks, SAVE_IN_PROCEES, db_file, ex_pending>>

\* the snapshot loop finds enough mutations on its tick and calls save_db
SaveBegin ==
    /\ inflight["save_db"].pc = "idle"
    /\ MUTATION_COUNT_SINCE_SAVE >= SaveMutations
    /\ inflight' = [inflight EXCEPT !["save_db"] = [Idle EXCEPT !.pc = "start", !.op = "save_db"]]
    /\ last' = [op |-> "begin", key |-> "", arg |-> <<"save_db", "save_db">>, reply |-> print_ok]
    /\ UNCHANGED <<KEYS_MAP, KV_BTREE, JSON_BTREE, GEO_BTREE, GEO_RTREE, KEYS_REM_EX_HASH,
                   DELETED_KEYS_LIST, MUTATION_COUNT_SINCE_SAVE, LAST_SAVE_TIME, now, timers,
                   flush_tasks, save_tasks, SAVE_IN_PROCEES, db_file, ex_pending>>

\* save_db takes its next step; the step that ends it records how it ended and
\* whether the encoding had succeeded
SaveStep(ok) ==
    /\ inflight["save_db"].pc # "idle"
    /\ LET r == save_db_step(DB, db_file, inflight["save_db"], ok, now)
       IN  /\ Store(r.st)
           /\ db_file' = r.file
           /\ inflight' = [inflight EXCEPT !["save_db"] = r.t]
           /\ last' = IF r.result = "running"
                      THEN [op |-> "step", key |-> "", arg |-> <<"save_db">>, reply |-> print_ok]
                      ELSE [op |-> "save_db", key |-> "",
                            arg |-> <<r.result, inflight["save_db"].loc.encoded>>,
                            reply |-> print_ok]
    /\ UNCHANGED <<now, timers, flush_tasks, save_tasks, SAVE_IN_PROCEES, ex_pending>>

\* the process stops and starts again: init_db on fresh singletons, load_db from the file
Restart ==
    /\ Store(load_db(EmptyDB, db_file))
    /\ timers' = InitTimers
    /\ flush_tasks' = 0 /\ save_tasks' = 0
    /\ ex_pending' = EmptyMap
    /\ last' = [op |-> "load_db", key |-> "", arg |-> <<>>, reply |-> print_ok]
    /\ inflight' = NoTasks /\ SAVE_IN_PROCEES' = FALSE
    /\ UNCHANGED <<now, db_file>>

Exists(ks) == Command("EXISTS", "", ks, exists(DB, ks))
KeysCmd == Command("KEYS", "", <<"*">>, keys(DB))
Info == Command("INFO", "", <<>>, info(DB))
DbSize == Command("DBSIZE", "", <<>>, db_size(DB))
LastSave == Command("LASTSAVE", "", <<>>, last_save(DB))

\* ---------------------------------------------------------- specifications
\* inputs of the commands
Values == {ESString(<<"h">>), ESInt(1)}
ExSecs == {0, 1}
Increments == {1}
Coords == {<<1, 2>>, <<3, 4>>}
Tags == {"p", "q"}
JsonTexts == {"{\"x\":1}", "{bad"}
SetItemsArgs == {<< <<(<<"x">>), JNum(1)>> >>}

\* every family of commands on every key, with the background loops
Next ==
    \/ \E k \in Keys, v \in Values, ex \in ExSecs : Set(k, v, ex)
    \/ \E k \in Keys, v \in Values : GetSet(k, v)
    \/ \E k \in Keys : Get(k)
    \/ \E k \in Keys : Del(k)
    \/ \E k \in Keys : Persist(k)
    \/ \E k \in Keys : Ttl(k)
    \/ \E k \in Keys : Expire(k, 1)
    \/ \E k \in Keys, at \in 0..MaxTime : ExpireAt(k, at)
    \/ \E k \in Keys, n \in Increments : IncrBy(k, n)
    \/ \E k \in Keys : GeoAdd(k, << <<1, 2, "p">> >>)
    \/ \E k \in Keys : GeoDel(k)
    \/ \E k \in Keys : GeoRemove(k, <<"p">>)
    \/ \E k \in Keys, text \in JsonTexts : JSetRaw(k, text)
    \/ \E k \in Keys, items \in SetItemsArgs : JSet(k, items)
    \/ \E k \in Keys, text \in JsonTexts : JMerge(k, text)
    \/ \E k \in Keys : JDel(k)
    \/ FlushDb
    \/ ClearDb
    \/ Tick
    \/ Sweeper
    \/ Reaper

Spec == Init /\ [][Next]_vars

\* GEOADD arguments: one or two (lat, lng, tag) items
GeoItem == {<<c[1], c[2], tag>> : c \in Coords, tag \in Tags}
GeoItems == {<<i>> : i \in GeoItem} \cup {<<i, j>> : i \in GeoItem, j \in GeoItem}
TagLists == {<<"p">>, <<"q">>, <<"p", "q">>}
\* the second key takes one point only
GeoItemsFor(k) == IF k = "a" THEN GeoItems ELSE {<< <<1, 2, "p">> >>}

\* the geo commands on two keys, with snapshots and restarts
NextGeo ==
    \/ \E k \in GeoKeys : \E items \in GeoItemsFor(k) : GeoAdd(k, items)
    \/ \E k \in Keys, tags \in TagLists : GeoRemove(k, tags)
    \/ \E k \in GeoKeys : GeoDel(k)
    \/ \E k \in Keys, tag \in Tags : GeoPos(k, <<tag>>)
    \/ \E k \in Keys : Set(k, ESInt(1), 0)
    \/ FlushDb
    \/ ClearDb
    \/ \E io_ok \in BOOLEAN : SaveDb(io_ok)
    \/ Restart

SpecGeo == Init /\ [][NextGeo]_vars

\* SET values for the integer commands: Strings that parse, in canonical decimal form
\* or not, a String that does not parse, and an Int
KvValues == {ESString(<<"h">>), ESString(<<"1">>), ESString(<<"+", "1">>),
             ESString(<<"0", "1">>), ESInt(1)}
KvIncrements == {0, 1, 0 - 1}

\* the string and integer commands on one key, which the JSON commands can claim
NextKv ==
    \/ \E k \in Keys, v \in KvValues : Set(k, v, 0)
    \/ \E k \in Keys, v \in KvValues : GetSet(k, v)
    \/ \E k \in Keys : Get(k)
    \/ \E k \in Keys : Del(k)
    \/ \E k \in Keys, n \in KvIncrements : IncrBy(k, n)
    \/ \E k \in Keys, items \in SetItemsArgs : JSet(k, items)
    \/ \E k \in Keys : JDel(k)

SpecKv == Init /\ [][NextKv]_vars

\* JSET arguments: one set, two sets of which the second leads through the number the
\* first has stored, and a set on another path
JsonSetItems == {<< <<(<<"x">>), JNum(1)>> >>,
                 << <<(<<"x">>), JNum(1)>>, <<(<<"x", "y">>), JNum(1)>> >>,
                 << <<(<<"y", "x">>), JNum(2)>> >>}
JsonDocTexts == {"{\"x\":1.5}", "{\"y\":2}", "{bad"}
JsonPaths == {<<"x">>, <<"y">>, <<"x", "y">>}

\* the JSON commands on one key
NextJson ==
    \/ \E k \in Keys, items \in JsonSetItems : JSet(k, items)
    \/ \E k \in Keys, text \in JsonDocTexts : JSetRaw(k, text)
    \/ \E k \in Keys, path \in JsonPaths \cup {<<>>} : JGet(k, path)
    \/ \E k \in Keys, path \in JsonPaths : JIncrBy(k, path, 1)
    \/ \E k \in Keys : JDel(k)

SpecJson == Init /\ [][NextJson]_vars

\* GEOADD, GEOREM and GEODEL of two connections, their handlers interleaved
NextGeoConc ==
    \/ \E c \in Clients, k \in Keys, i \in GeoItem : Begin(c, "GEOADD", k, <<i>>)
    \/ \E c \in Clients, k \in Keys, tag \in Tags : Begin(c, "GEOREM", k, <<tag>>)
    \/ \E c \in Clients, k \in Keys : Begin(c, "GEODEL", k, <<>>)
    \/ \E c \in Clients : Step(c)

SpecGeoConc == Init /\ [][NextGeoConc]_vars

\* the integer a key holds, an absent key counting as 0
IntOf(k) == IF k \in DOMAIN KV_BTREE THEN KV_BTREE[k].i ELSE 0

\* the increments of the INCRBY handlers that are running
RECURSIVE PendingIncrements(_)
PendingIncrements(cs) ==
    IF cs = {} THEN 0
    ELSE LET c == CHOOSE x \in cs : TRUE
         IN  (IF Running(c) THEN inflight[c].arg[1] ELSE 0) + PendingIncrements(cs \ {c})

ConcIncrements == {1}
IncrKeys == {"a", "b"}

\* INCRBY of two connections on two keys, their handlers interleaved; the integers stay
\* within their bound
NextIncrConc ==
    \/ \E c \in Clients, k \in IncrKeys, n \in ConcIncrements :
          /\ IntOf(k) + PendingIncrements(Clients) + n <= MaxInt
          /\ Begin(c, "INCRBY", k, <<n>>)
    \/ \E c \in Clients : Step(c)

SpecIncrConc == Init /\ [][NextIncrConc]_vars

\* SET, DEL and BGSAVE interleaved with the steps of the snapshot loop, as time passes
NextSnap ==
    \/ \E k \in Keys, v \in Values : Set(k, v, 0)
    \/ \E k \in Keys : Del(k)
    \/ BgSave
    \/ BgSaveTask
    \/ SaveBegin
    \/ \E ok \in BOOLEAN : SaveStep(ok)
    \/ Tick
    \/ Sweeper
    \/ Reaper

SpecSnap == Init /\ [][NextSnap]_vars

\* EXISTS arguments: one key, or a key named twice
ExistsArgs == {<<"a">>, <<"b">>, <<"a", "a">>}

\* the reading commands on a database that the writers, the loops and the snapshot fill
NextRead ==
    \/ \E k \in Keys, v \in Values, ex \in ExSecs : Set(k, v, ex)
    \/ \E k \in Keys : Del(k)
    \/ \E k \in Keys : JSetRaw(k, "{\"x\":1}")
    \/ \E k \in Keys : GeoAdd(k, << <<1, 2, "p">> >>)
    \/ Tick
    \/ Sweeper
    \/ Reaper
    \/ SaveDb(TRUE)
    \/ \E k \in Keys : Get(k)
    \/ \E ks \in ExistsArgs : Exists(ks)
    \/ KeysCmd
    \/ \E k \in Keys : Ttl(k)
    \/ Info
    \/ DbSize
    \/ LastSave
    \/ \E k \in Keys, path \in JsonPaths : JGet(k, path)
    \/ \E k \in Keys, tag \in Tags : GeoPos(k, <<tag>>)

SpecRead == Init /\ [][NextRead]_vars

\* writes of the three families with JDEL, snapshots and restarts on one key
NextLoad ==
    \/ \E k \in Keys : Set(k, ESInt(1), 0)
    \/ \E k \in Keys : Del(k)
    \/ \E k \in Keys : JSetRaw(k, "{\"x\":1}")
    \/ \E k \in Keys : JDel(k)
    \/ \E k \in Keys : GeoAdd(k, << <<1, 2, "p">> >>)
    \/ \E k \in Keys : GeoDel(k)
    \/ SaveDb(TRUE)
    \/ Restart

SpecLoad == Init /\ [][NextLoad]_vars

\* SET, GET, DEL and BGSAVE with the snapshot loop
NextBgSave ==
    \/ \E k \in Keys, v \in Values : Set(k, v, 0)
    \/ \E k \in Keys : Del(k)
    \/ \E k \in Keys : Get(k)
    \/ BgSave
    \/ BgSaveTask
    \/ \E io_ok \in BOOLEAN : SaveDb(io_ok)

\* every spawned task runs, and the snapshot loop, whenever it is due, writes in the end
SpecBgSave ==
    Init /\ [][NextBgSave]_vars /\ WF_vars(BgSaveTask) /\ WF_vars(SaveDb(TRUE))

\* ------------------------------------------------------------------ claims
AllKeys == Keys \cup GeoKeys

\* the family a write command stores under
FamilyOf(op) ==
    CASE op \in {"SET", "GETSET", "INCRBY"} -> "KV"
      [] op \in {"JSET", "JSET.RAW", "JMERGE"} -> "JSON"
      [] op = "GEOADD" -> "GEO"
      [] OTHER -> "none"

\* the store of a family holds key
Holds(family, key) ==
    CASE family = "KV" -> key \in DOMAIN KV_BTREE
      [] family = "JSON" -> key \in DOMAIN JSON_BTREE
      [] family = "GEO" -> key \in DOMAIN GEO_BTREE

\* C1: after any sequence of completed commands every key is held by at most one of
\* the KV, JSON and geo point-set stores, and a directory entry for the key names the
\* store that holds it.
C1_SingleFamily ==
    \A k \in AllKeys :
        /\ Cardinality({f \in {"KV", "JSON", "GEO"} : Holds(f, k)}) <= 1
        /\ k \in DOMAIN KEYS_MAP => Holds(KEYS_MAP[k], k)

\* C2: a write command (SET, GETSET, INCRBY, JSET, JSET.RAW, JMERGE, GEOADD) on a key
\* that the directory records under another family replies WRONGTYPE and leaves the
\* stores, the directory, the expiration index and the mutation counter unchanged.
C2_CrossFamilyWriteRejected ==
    [][(/\ FamilyOf(last'.op) # "none"
        /\ last'.key \in DOMAIN KEYS_MAP
        /\ KEYS_MAP[last'.key] # FamilyOf(last'.op))
       => /\ last'.reply = print_wrong_type_err
          /\ UNCHANGED <<KEYS_MAP, KV_BTREE, JSON_BTREE, GEO_BTREE, GEO_RTREE,
                         KEYS_REM_EX_HASH, MUTATION_COUNT_SINCE_SAVE>>]_vars

\* C3: every key held by a value store has a directory entry of that store's family,
\* so KEYS * lists it.
C3_DirectoryCoversStores ==
    \A k \in AllKeys : \A f \in {"KV", "JSON", "GEO"} :
        Holds(f, k) => /\ k \in DOMAIN KEYS_MAP /\ KEYS_MAP[k] = f
                       /\ k \in keys(DB).reply.a

\* the tags of a set of points
TagsOf(points) == {p.tag : p \in points}

\* C4: after any sequence of GEOADD, GEOREM, GEODEL, FLUSHDB and startup loads the
\* spatial index and the point-set store have the same keys, and for each key the
\* spatial index holds exactly the points, by tag, of the point set.
C4_SpatialIndexMatchesPointSet ==
    /\ DOMAIN GEO_RTREE = DOMAIN GEO_BTREE
    /\ \A k \in DOMAIN GEO_BTREE : TagsOf(GEO_RTREE[k]) = TagsOf(GEO_BTREE[k])

\* C4 witness: a startup load has rebuilt the spatial index of two geo keys
C4_Witness ==
    /\ last.op = "load_db"
    /\ DOMAIN GEO_RTREE = {"a", "b"}
    /\ TagsOf(GEO_RTREE["a"]) = {"p", "q"}

\* C5: GEOADD K (lat, lng, t) on a key that already has a member tagged t replaces the
\* member: afterwards K has exactly one member tagged t and GEOPOS K t replies the new
\* coordinates.
C5_GeoAddReplaces ==
    [][(/\ last'.op = "GEOADD" /\ Len(last'.arg) = 1
        /\ last'.reply = print_ok
        /\ last'.key \in DOMAIN GEO_BTREE
        /\ HashSetGet(GEO_BTREE[last'.key], last'.arg[1][3]) # {})
       => /\ Cardinality(HashSetGet(GEO_BTREE'[last'.key], last'.arg[1][3])) = 1
          /\ geo_pos(DB', last'.key, <<last'.arg[1][3]>>).reply
                = print_nested_arr(<< <<last'.arg[1][1], last'.arg[1][2]>> >>)]_vars

\* C6: every key that is in the expiration index with expiry <= now when a sweeper
\* tick runs is absent from the KV store when the tick finishes.
C6_SweepRemovesExpired ==
    [][last'.op = "sweeper"
       => \A k \in DOMAIN KEYS_REM_EX_HASH :
             KEYS_REM_EX_HASH[k] <= now => k \notin DOMAIN KV_BTREE']_vars

\* C7: when SET K V EX s completed at time t and no later command names K, then after
\* a sweeper tick that runs at a time >= t + s, GET K replies KEY_NOT_FOUND.
C7_SetExExpires ==
    [][last'.op = "sweeper"
       => \A k \in DOMAIN ex_pending :
             ex_pending[k] <= now => get(DB', k).reply = print_err("KEY_NOT_FOUND")]_vars

C9_Persist ==
    [][/\ last'.op = "PERSIST"
          => /\ last'.reply = print_integer(IF last'.key \in DOMAIN KEYS_REM_EX_HASH
                                            THEN 1 ELSE 0)
             /\ last'.key \notin DOMAIN KEYS_REM_EX_HASH'
       /\ last'.op = "sweeper"
          => \A k \in (DOMAIN KV_BTREE) \ (DOMAIN KV_BTREE') :
                k \in DOMAIN KEYS_REM_EX_HASH /\ KEYS_REM_EX_HASH[k] <= now
       /\ \A k \in (DOMAIN KEYS_REM_EX_HASH') \ (DOMAIN KEYS_REM_EX_HASH) :
             /\ last'.key = k
             /\ \/ last'.op \in {"EXPIRE", "EXPIREAT"}
                \/ last'.op = "SET" /\ last'.arg[2] > 0]_vars

\* C9 witness: PERSIST removed the expiry of a key that the KV store still holds
C9_Witness ==
    /\ last.op = "PERSIST" /\ last.reply = print_integer(1)
    /\ last.key \in DOMAIN KV_BTREE /\ last.key \notin DOMAIN KEYS_REM_EX_HASH

\* the reply GET gives for a stored value
ReplyOf(value) == IF value.type = "String" THEN print_string(value.s) ELSE print_integer(value.i)

\* C10: GET K right after SET K V replies V, and after SET K V1; SET K V2 it replies
\* V2, whatever family K had before the SET.
C10_SetThenGet ==
    [][/\ (last.op = "SET" /\ last'.op = "GET" /\ last'.key = last.key)
          => last'.reply = ReplyOf(last.arg[1])
       /\ last'.op = "SET"
          => \A v2 \in Values :
                get(set(DB', last'.key, v2, 0, now').st, last'.key).reply = ReplyOf(v2)]_vars

\* C10 witness: GET replied the value SET stored under a key that the geo store holds
C10_Witness ==
    /\ last.op = "GET" /\ last.reply = print_string(<<"h">>)
    /\ last.key \in DOMAIN GEO_BTREE

\* a stored value is the given ESValue
SameValue(v, w) ==
    /\ v.type = w.type
    /\ IF v.type = "Int" THEN v.i = w.i ELSE v.s = w.s

\* the key is held by no value store
InNoStore(k) == \A f \in {"KV", "JSON", "GEO"} : ~Holds(f, k)

\* C11: INCRBY K n stores Int(n) and replies n when K is absent; stores Int(i+n) and
\* replies i+n when K holds Int(i); stores the text of s_int+n, still as a String, and
\* replies that integer when K holds a String that parses; replies 'ERR string cannot
\* be represented as integer' and leaves the value when the String does not parse.
C11_IncrBy ==
    [][last'.op = "INCRBY"
       => LET k == last'.key
              n == last'.arg[1]
          IN  IF k \in DOMAIN KV_BTREE
              THEN LET data == KV_BTREE[k]
                   IN  IF data.type = "Int"
                       THEN /\ k \in DOMAIN KV_BTREE'
                            /\ SameValue(KV_BTREE'[k], ESInt(data.i + n))
                            /\ last'.reply = print_integer(data.i + n)
                       ELSE IF parse_i64(data.s).ok
                            THEN /\ k \in DOMAIN KV_BTREE'
                                 /\ SameValue(KV_BTREE'[k],
                                              ESString(to_string(parse_i64(data.s).d + n)))
                                 /\ last'.reply
                                       = print_string(to_string(parse_i64(data.s).d + n))
                            ELSE /\ last'.reply
                                       = print_err("ERR string cannot be represented as integer")
                                 /\ KV_BTREE' = KV_BTREE
              ELSE InNoStore(k)
                      => /\ k \in DOMAIN KV_BTREE'
                         /\ SameValue(KV_BTREE'[k], ESInt(n))
                         /\ last'.reply = print_integer(n)]_vars

\* C13: GETSET K V on a key that is absent or of the KV family stores V under K and
\* replies the value K held before, String or Int, or the empty string when K was
\* absent.
C13_GetSet ==
    [][(last'.op = "GETSET" /\ is_key_valid_for_type(DB, last'.key, "KV"))
       => LET k == last'.key
          IN  /\ k \in DOMAIN KV_BTREE'
              /\ SameValue(KV_BTREE'[k], last'.arg[1])
              /\ last'.reply = IF k \in DOMAIN KV_BTREE THEN ReplyOf(KV_BTREE[k])
                               ELSE print_string(<<>>)]_vars

\* C12 as stated: INCRBY K 0 leaves the stored value of every existing KV key as
\* it is, variant and text, and creates K = 0 when K is absent.
C12_IncrByZeroNoOp ==
    [][(last'.op = "INCRBY" /\ last'.arg = <<0>>)
       => LET k == last'.key
          IN  IF k \in DOMAIN KV_BTREE THEN KV_BTREE' = KV_BTREE
              ELSE InNoStore(k)
                      => k \in DOMAIN KV_BTREE' /\ SameValue(KV_BTREE'[k], ESInt(0))]_vars

\* the text is the canonical decimal form of the integer it parses to
Canonical(s) == parse_i64(s).ok /\ to_string(parse_i64(s).d) = s

\* C12: INCRBY K 0 leaves an Int, a String that does not parse and a String in
\* canonical decimal form as they are; it rewrites a String that parses but is not
\* canonical to the canonical text of the same integer, still a String; it changes
\* nothing when the directory records K under another family; otherwise, K being
\* absent from the KV store, it creates K = Int(0).
C12_IncrByZero ==
    [][(last'.op = "INCRBY" /\ last'.arg = <<0>>)
       => LET k == last'.key
          IN  IF ~is_key_valid_for_type(DB, k, "KV") THEN DB' = DB
              ELSE IF k \notin DOMAIN KV_BTREE
                   THEN k \in DOMAIN KV_BTREE' /\ SameValue(KV_BTREE'[k], ESInt(0))
                   ELSE IF KV_BTREE[k].type = "String" /\ parse_i64(KV_BTREE[k].s).ok
                           /\ ~Canonical(KV_BTREE[k].s)
                        THEN /\ KV_BTREE'[k].type = "String"
                             /\ KV_BTREE'[k].s = to_string(parse_i64(KV_BTREE[k].s).d)
                             /\ KV_BTREE'[k].s # KV_BTREE[k].s
                        ELSE KV_BTREE' = KV_BTREE]_vars

\* INCRBY K 0 has replied the integer a String holds, and the String is stored
C12_Witness ==
    /\ last.op = "INCRBY" /\ last.arg = <<0>> /\ last.reply = print_string(<<"1">>)
    /\ last.key \in DOMAIN KV_BTREE /\ KV_BTREE[last.key] = ESString(<<"1">>)

\* the members of the point set of k whose tags are not among tags
MembersNotListed(k, tags) ==
    {p \in GEO_BTREE[k] : \A n \in 1..Len(tags) : p.tag # tags[n]}

\* C14: GEOREM K tags that removes the last member of K removes K from the point-set
\* store, the spatial index and the directory, so that a key created by GEOADD and
\* emptied by GEOREM is absent everywhere; otherwise GEOREM leaves K, in the point-set
\* store and in the spatial index, with exactly the members that were not listed.
C14_GeoRemove ==
    [][(last'.op = "GEOREM" /\ last'.key \in DOMAIN GEO_BTREE)
       => LET k == last'.key
              rest == MembersNotListed(k, last'.arg)
          IN  /\ last'.reply = print_ok
              /\ IF rest = {}
                 THEN /\ k \notin DOMAIN GEO_BTREE' /\ k \notin DOMAIN GEO_RTREE'
                      /\ k \notin DOMAIN KEYS_MAP'
                      /\ (k \notin DOMAIN KV_BTREE /\ k \notin DOMAIN JSON_BTREE
                             => k \notin DOMAIN KV_BTREE' /\ k \notin DOMAIN JSON_BTREE')
                 ELSE /\ k \in DOMAIN GEO_BTREE' /\ GEO_BTREE'[k] = rest
                      /\ k \in DOMAIN GEO_RTREE' /\ GEO_RTREE'[k] = rest]_vars

\* GEOREM has removed the last member of a key, which is now absent everywhere, while
\* another key keeps its point
C14_Witness ==
    /\ last.op = "GEOREM" /\ last.reply = print_ok /\ Len(last.arg) = 2
    /\ \A f \in {"KV", "JSON", "GEO"} : ~Holds(f, last.key)
    /\ last.key \notin DOMAIN KEYS_MAP /\ last.key \notin DOMAIN GEO_RTREE
    /\ DOMAIN GEO_BTREE = {"b"}

\* GEOREM has removed one of the two members of a key
C14_WitnessPartial ==
    /\ last.op = "GEOREM" /\ last.reply = print_ok /\ last.arg = <<"p">>
    /\ last.key \in DOMAIN GEO_BTREE /\ TagsOf(GEO_BTREE[last.key]) = {"q"}

\* C15: after BGSAVE has replied OK a snapshot is eventually written: the file holds
\* the stores, last_save_time is updated and the mutation counter is reset.
C15_BgSaveWrites ==
    (last.op = "BGSAVE" /\ last.reply = print_ok)
       ~> (last.op = "save_db" /\ last.arg = <<TRUE>> /\ db_file.exists
              /\ MUTATION_COUNT_SINCE_SAVE = 0)

\* the state of a fresh process that has loaded the snapshot written from the stores
Reloaded == load_db(EmptyDB, save_db(DB, NoFile, TRUE, now).file)

\* C16: a snapshot followed by a load is a round trip for every state the commands
\* reach: the KV, JSON and point-set stores are the same, the directory classifies
\* every key as before, and the spatial index holds the same members.
C16_SnapshotRoundTrip ==
    /\ Reloaded.KV_BTREE = KV_BTREE
    /\ Reloaded.JSON_BTREE = JSON_BTREE
    /\ Reloaded.GEO_BTREE = GEO_BTREE
    /\ \A k \in AllKeys :
          /\ k \in DOMAIN Reloaded.KEYS_MAP <=> k \in DOMAIN KEYS_MAP
          /\ k \in DOMAIN KEYS_MAP => Reloaded.KEYS_MAP[k] = KEYS_MAP[k]
    /\ DOMAIN Reloaded.GEO_RTREE = DOMAIN GEO_RTREE
    /\ \A k \in DOMAIN GEO_RTREE : TagsOf(Reloaded.GEO_RTREE[k]) = TagsOf(GEO_RTREE[k])

\* every store, index and set of the database is empty
AllEmpty ==
    /\ KV_BTREE = EmptyMap /\ JSON_BTREE = EmptyMap /\ GEO_BTREE = EmptyMap
    /\ GEO_RTREE = EmptyMap /\ KEYS_REM_EX_HASH = EmptyMap /\ KEYS_MAP = EmptyMap
    /\ DELETED_KEYS_LIST = {}

\* C17 as stated: once FLUSHDB has taken effect everything is empty and the mutation
\* counter has grown by the number of database keys removed, each key counted once.
C17_FlushCountsKeys ==
    [][last'.op = "clear_db"
       => /\ AllEmpty'
          /\ MUTATION_COUNT_SINCE_SAVE'
                = MUTATION_COUNT_SINCE_SAVE
                  + Cardinality({k \in AllKeys : \E f \in {"KV", "JSON", "GEO"} : Holds(f, k)})]_vars

\* C17: once FLUSHDB has taken effect the KV store, JSON store, point sets, spatial
\* index, expiration index, directory and tombstone set are empty, and the mutation
\* counter has grown by the sum of the sizes of the KV store, the expiration index,
\* the spatial index, the point-set store and the JSON store.
C17_FlushDb ==
    [][last'.op = "clear_db"
       => /\ AllEmpty'
          /\ MUTATION_COUNT_SINCE_SAVE'
                = MUTATION_COUNT_SINCE_SAVE + MapLen(KV_BTREE) + MapLen(KEYS_REM_EX_HASH)
                  + MapLen(GEO_RTREE) + MapLen(GEO_BTREE) + MapLen(JSON_BTREE)]_vars

\* FLUSHDB has taken effect and the counter stands at 3
C17_Witness ==
    /\ last.op = "clear_db" /\ AllEmpty /\ MUTATION_COUNT_SINCE_SAVE = 3

\* C18: JMERGE K json on a key of the JSON family replies OK and stores the deep
\* merge of the document of K and the new one, the new one winning; on an absent K it
\* stores the new document; it replies WRONGTYPE only when the directory records K
\* under another family.
C18_JMerge ==
    [][(last'.op = "JMERGE" /\ from_str(last'.arg[1]).ok)
       => LET k == last'.key
              value == from_str(last'.arg[1]).v
          IN  /\ (k \in DOMAIN JSON_BTREE /\ k \in DOMAIN KEYS_MAP /\ KEYS_MAP[k] = "JSON")
                    => /\ last'.reply = print_ok
                       /\ k \in DOMAIN JSON_BTREE'
                       /\ JSON_BTREE'[k] = merge(value, JSON_BTREE[k])
              /\ (InNoStore(k) /\ k \notin DOMAIN KEYS_MAP)
                    => /\ last'.reply = print_ok
                       /\ k \in DOMAIN JSON_BTREE' /\ JSON_BTREE'[k] = value
              /\ last'.reply = print_wrong_type_err
                    => k \in DOMAIN KEYS_MAP /\ KEYS_MAP[k] # "JSON"]_vars

\* one of the sets of a JSET on key fails to apply
SomeSetFails(key, items) ==
    SetItems(IF key \in DOMAIN JSON_BTREE THEN JSON_BTREE[key] ELSE JNull, items, 0).ers # 0

\* C19: when a (path, value) of JSET K fails to apply, the reply is 'Error Saving
\* values' and the other sets of the command are applied to the stored document of K,
\* whether K existed before the command or not.
C19_JSetPartial ==
    [][(last'.op = "JSET" /\ is_key_valid_for_type(DB, last'.key, "JSON")
          /\ SomeSetFails(last'.key, last'.arg))
       => LET k == last'.key
              doc == IF k \in DOMAIN JSON_BTREE THEN JSON_BTREE[k] ELSE JNull
          IN  /\ last'.reply = print_err("Error Saving values")
              /\ k \in DOMAIN JSON_BTREE'
              /\ JSON_BTREE'[k] = SetItems(doc, last'.arg, 0).json]_vars

\* C20: no handler panics: every command returns a reply; JGET K path on a path
\* missing from the document replies the serialized null.
C20_NoPanic ==
    /\ last.reply # panicked
    /\ (/\ last.op = "JGET" /\ last.arg[1] # <<>>
        /\ last.key \in DOMAIN JSON_BTREE /\ JSON_BTREE[last.key].j # "null"
        /\ ~dot_get(JSON_BTREE[last.key], last.arg[1]).some)
          => last.reply = print_string(<<"n", "u", "l", "l">>)

\* no connection has a handler running
Quiescent == \A c \in Clients : ~Running(c)

\* C21: for every interleaving of geo mutations on the same key, once all of them
\* have completed the spatial index and the point-set store have the same keys and,
\* for each key, the same members.
C21_ConcurrentGeo ==
    Quiescent
       => /\ DOMAIN GEO_RTREE = DOMAIN GEO_BTREE
          /\ \A k \in DOMAIN GEO_BTREE : TagsOf(GEO_RTREE[k]) = TagsOf(GEO_BTREE[k])

\* C22: the mutation counter is reset and last_save_time is changed only by a
\* snapshot whose file write succeeded; a snapshot attempt that fails at any step, the
\* serialization included, leaves both as they were.
C22_FailedSnapshotKeepsCounter ==
    [][/\ last'.op = "save_db"
          => IF last'.arg = <<"written", TRUE>>
             THEN MUTATION_COUNT_SINCE_SAVE' = 0 /\ LAST_SAVE_TIME' = now
             ELSE /\ MUTATION_COUNT_SINCE_SAVE' = MUTATION_COUNT_SINCE_SAVE
                  /\ LAST_SAVE_TIME' = LAST_SAVE_TIME
       /\ (MUTATION_COUNT_SINCE_SAVE' < MUTATION_COUNT_SINCE_SAVE
              \/ LAST_SAVE_TIME' # LAST_SAVE_TIME)
          => last'.op = "save_db" /\ last'.arg = <<"written", TRUE>>]_vars

\* C25: the save_in_progress flag is true exactly while a snapshot is running.
C25_SaveInProgressFlag ==
    SAVE_IN_PROCEES <=> inflight["save_db"].pc # "idle"

\* the stores as the snapshot file holds them are the stores of the database
SnapshotIsCurrent ==
    /\ decode(db_file.content).ok
    /\ decode(db_file.content).db.btree = KV_BTREE
    /\ decode(db_file.content).db.json_btree = JSON_BTREE
    /\ decode(db_file.content).db.geo_tree = GEO_BTREE

\* C28: no mutation is lost to the snapshot: when save_db has written the file and
\* reset the counter, and the stores differ from the written snapshot because of
\* commands that completed after the copy, the counter is at least 1.
C28_NoLostMutation ==
    (last.op = "save_db" /\ last.arg = <<"written", TRUE>> /\ ~SnapshotIsCurrent)
       => MUTATION_COUNT_SINCE_SAVE >= 1

\* C29: INCRBY is atomic per key. On a key that starts absent and only takes INCRBY
\* with positive increments, the replies are the partial sums of a serial order: no
\* two connections hold the same reply, and once every handler has returned the key
\* holds at least every integer that was replied.
C29_IncrByAtomic ==
    /\ \A c, d \in Clients :
          (c # d /\ inflight[c].pc = "done" /\ inflight[d].pc = "done"
             /\ inflight[c].key = inflight[d].key)
          => inflight[c].reply # inflight[d].reply
    /\ Quiescent
          => \A c \in Clients :
                inflight[c].pc = "done" => IntOf(inflight[c].key) >= inflight[c].reply.i

\* C23: every successful mutating command other than FLUSHDB that changes a value
\* store (KV, JSON or geo point-set) increases the mutation counter by exactly 1.
C23_MutationCounted ==
    [][(/\ last'.op \in {"SET", "GETSET", "DEL", "INCRBY", "JSET", "JSET.RAW", "JMERGE",
                         "JDEL", "GEOADD", "GEOREM", "GEODEL"}
        /\ \/ KV_BTREE' # KV_BTREE
           \/ JSON_BTREE' # JSON_BTREE
           \/ GEO_BTREE' # GEO_BTREE)
       => MUTATION_COUNT_SINCE_SAVE' = MUTATION_COUNT_SINCE_SAVE + 1]_vars

\* C26: a KV key stored by SET without EX, with no EXPIRE or EXPIREAT since, is not
\* removed by the sweeper, whatever happened to the key before that SET: the sweeper
\* turn that follows such a SET leaves the key in the KV store.
C26_PlainSetSurvivesSweep ==
    [][(/\ last.op = "SET" /\ last.arg[2] = 0 /\ last.reply = print_ok
        /\ last'.op = "sweeper")
       => last.key \in DOMAIN KV_BTREE']_vars

\* C30: JDEL on a key that the directory gives to the KV or GEO family, or that is
\* absent, leaves the directory and every value store unchanged.
C30_JDelOtherFamily ==
    [][(/\ last'.op = "JDEL"
        /\ \/ last'.key \notin DOMAIN KEYS_MAP
           \/ KEYS_MAP[last'.key] \in {"KV", "GEO"})
       => /\ KEYS_MAP' = KEYS_MAP
          /\ KV_BTREE' = KV_BTREE /\ JSON_BTREE' = JSON_BTREE
          /\ GEO_BTREE' = GEO_BTREE /\ GEO_RTREE' = GEO_RTREE]_vars

\* C27: the startup load establishes the single-family invariant for every decodable
\* snapshot, also one that stores a key under several families: after load_db every
\* key is held by at most one value store, the directory names that store, and the
\* spatial index has a key exactly when the point-set store has it.
C27_LoadEstablishesSingleFamily ==
    [][last'.op = "load_db"
       => (C1_SingleFamily' /\ DOMAIN GEO_RTREE' = DOMAIN GEO_BTREE')]_vars

C24_WitnessAllStores ==
    /\ last.op = "JGET" /\ last.reply.t = "bulk"
    /\ KV_BTREE # EmptyMap /\ JSON_BTREE # EmptyMap /\ GEO_BTREE # EmptyMap
    /\ GEO_RTREE # EmptyMap /\ KEYS_MAP # EmptyMap /\ DELETED_KEYS_LIST # {}

\* C31: whenever a command other than JSET replies with an error, the directory, the
\* KV, JSON and geo stores, the spatial index, the expiration index and the mutation
\* counter are the same as before the command. An error reply is WRONGTYPE,
\* KEY_NOT_FOUND or an ERR string.
C31_ErrorRepliesAtomic ==
    [][(last'.op \notin {"JSET", "step", "begin"} /\ last'.reply.t = print_wrong_type_err.t)
       => UNCHANGED <<KEYS_MAP, KV_BTREE, JSON_BTREE, GEO_BTREE, GEO_RTREE,
                      KEYS_REM_EX_HASH, MUTATION_COUNT_SINCE_SAVE>>]_vars

====
